---- MODULE Spec2Model ----
(***************************************************************************)
(* Stripe webhook receiver (src/src/stripe_handler.rs): signature          *)
(* verification, the idempotency store (Redis with an in-memory fallback), *)
(* the subscription manager and the webhook handler that ties them         *)
(* together.  Every request is one task; a task's steps are the handler's  *)
(* suspension points.                                                      *)
(***************************************************************************)
EXTENDS Integers, Sequences, FiniteSets, TLC

\* -------------------------------------------------------------------------
\* Bounds of the model
\* -------------------------------------------------------------------------
\* Number of webhook deliveries (tasks) in one run.
MaxDeliveries == 2

\* Width of the signed integer that stands for i64.
IntBits == 20

\* Clock reading at start-up.
StartTime == 1000

\* Number of clock advances in one run.
MaxTicks == 1

\* -------------------------------------------------------------------------
\* Program constants
\* -------------------------------------------------------------------------
\* (now - ts).abs() > 300
Tolerance == 300

\* set_ex(.., 86400)
RetentionTTL == 86400

StatusOK == 200

StatusBadRequest == 400

StatusUnauthorized == 401

StatusInternalServerError == 500

I64Min == -(2 ^ (IntBits - 1))

I64Max == (2 ^ (IntBits - 1)) - 1

Tasks == 1 .. MaxDeliveries

EventIds == {"evt_1", "evt_2"}

webhook_secret == "whsec_placeholder"

\* -------------------------------------------------------------------------
\* Option<String>
\* -------------------------------------------------------------------------
None == [some |-> FALSE, v |-> ""]

Some(s) == [some |-> TRUE, v |-> s]

\* Option::unwrap_or_default / unwrap_or
unwrap_or(opt, dflt) == IF opt.some THEN opt.v ELSE dflt

\* -------------------------------------------------------------------------
\* Request bodies.  A body is the JSON document as serde sees it: whether it
\* deserializes as a StripeEvent, the envelope fields, and the fields of
\* data.object the handlers read.
\* -------------------------------------------------------------------------
Body(parses, id, event_type, is_session, email, customer, subscription, plan) ==
    [parses |-> parses, id |-> id, event_type |-> event_type,
     object_is_session |-> is_session, customer_email |-> email,
     customer |-> customer, subscription |-> subscription, plan |-> plan]

\* A body serde_json::from_str rejects.
MalformedBody == Body(FALSE, "", "", FALSE, None, None, None, None)

CheckoutBody(id, email, plan) ==
    Body(TRUE, id, "checkout.session.completed", TRUE, email,
         Some("cus_1"), Some("sub_1"), plan)

\* checkout.session.completed whose data.object is no CheckoutSession.
BadCheckoutBody(id) ==
    Body(TRUE, id, "checkout.session.completed", FALSE, None, None, None, None)

LifecycleBody(id, event_type, email) ==
    Body(TRUE, id, event_type, FALSE, email, None, None, None)

\* -------------------------------------------------------------------------
\* Payload bytes.  A payload is a sequence of units; a unit is either a run
\* of valid UTF-8 (carrying the document it spells) or one invalid byte.
\* -------------------------------------------------------------------------
ReplacementChar == [valid |-> TRUE, byte |-> 65533, doc |-> MalformedBody]

\* String::as_bytes of a request body (a String is valid UTF-8).
as_bytes(body) == << [valid |-> TRUE, byte |-> 0, doc |-> body] >>

\* String::from_utf8_lossy: every invalid byte becomes U+FFFD.
from_utf8_lossy(payload) ==
    [i \in DOMAIN payload |->
        IF payload[i].valid THEN payload[i] ELSE ReplacementChar]

\* -------------------------------------------------------------------------
\* HMAC-SHA256 + hex::encode, taken as injective in (key, message).
\* -------------------------------------------------------------------------
HmacHex(key, ts, text) == [key |-> key, ts |-> ts, text |-> text]

NoMac == HmacHex("", 0, << >>)

\* A header value as text: its reading as a decimal numeral (num; a numeral
\* outside the i64 range does not parse) and its reading as a hex digest.
NotNumeric == I64Max + 1

NumStr(n) == [num |-> n, mac |-> NoMac]

HexStr(m) == [num |-> NotNumeric, mac |-> m]

\* One comma-separated part of the header after splitn(2, '=').
Part(key, val) == [key |-> key, has_eq |-> TRUE, val |-> val]

BarePart(key) == [key |-> key, has_eq |-> FALSE, val |-> NumStr(NotNumeric)]

\* headers.get("stripe-signature") and sig.to_str()
Header(parts) == [present |-> TRUE, ascii |-> TRUE, parts |-> parts]

NoHeader == [present |-> FALSE, ascii |-> TRUE, parts |-> << >>]

NonAsciiHeader == [present |-> TRUE, ascii |-> FALSE, parts |-> << >>]

\* -------------------------------------------------------------------------
\* Signature verification
\* -------------------------------------------------------------------------
\* i64 arithmetic without overflow checks wraps around.
WrapI64(x) == ((x - I64Min) % (2 ^ IntBits)) + I64Min

Abs(x) == IF x < 0 THEN -x ELSE x

Max(S) == CHOOSE x \in S : \A y \in S : y <= x

\* The header split on ',' and '=' and collected into a map: parts without
\* '=' are dropped, a later part replaces an earlier one with the same key.
PartsWith(parts, key) ==
    {i \in DOMAIN parts : parts[i].has_eq /\ parts[i].key = key}

PartsHas(parts, key) == PartsWith(parts, key) # {}

PartsGet(parts, key) == parts[Max(PartsWith(parts, key))].val

\* timestamp.parse::<i64>()
ParsesAsI64(val) == val.num \in I64Min .. I64Max

\* now - ts, or .abs(), leaves the i64 range.
FreshnessOverflows(now_, ts) ==
    \/ (now_ - ts) \notin I64Min .. I64Max
    \/ WrapI64(now_ - ts) = I64Min

\* (now - ts).abs() as wrapping arithmetic computes it.
WrappedAge(now_, ts) ==
    IF WrapI64(now_ - ts) = I64Min THEN I64Min ELSE Abs(WrapI64(now_ - ts))

\* computed_sig for the parsed timestamp text and the payload.
ComputedSig(payload, timestamp, secret) ==
    HmacHex(secret, timestamp.num, from_utf8_lossy(payload))

\* verify_webhook_signature: "Ok", the Err message, or "panic" (arithmetic
\* overflow in a build with overflow checks).
verify_webhook_signature(payload, parts, secret, now_, checks) ==
    IF ~PartsHas(parts, "t") THEN "Missing timestamp"
    ELSE IF ~PartsHas(parts, "v1") THEN "Missing signature"
    ELSE IF ~ParsesAsI64(PartsGet(parts, "t")) THEN "Invalid timestamp"
    ELSE IF checks /\ FreshnessOverflows(now_, PartsGet(parts, "t").num)
        THEN "panic"
    ELSE IF WrappedAge(now_, PartsGet(parts, "t").num) > Tolerance
        THEN "Webhook timestamp too old"
    ELSE IF ComputedSig(payload, PartsGet(parts, "t"), secret)
                # PartsGet(parts, "v1").mac
        THEN "Invalid webhook signature"
    ELSE "Ok"

\* sig.to_str().unwrap_or(""): a header that is not visible ASCII reads as
\* the empty string, which has no key=value part.
SignatureParts(header) == IF header.ascii THEN header.parts ELSE << >>

\* -------------------------------------------------------------------------
\* Subscription manager
\* -------------------------------------------------------------------------
Plan(tier, monthly) == [tier |-> tier, monthly |-> monthly]

Free == Plan("Free", FALSE)

\* A lookup that ignores the plan code.
PlanOfAlwaysPro(plan_name) == Plan("Pro", TRUE)

\* match plan_name { .. }
PlanOf(plan_name) ==
    CASE plan_name = "pro_monthly" -> Plan("Pro", TRUE)
      [] plan_name = "pro_annual" -> Plan("Pro", FALSE)
      [] plan_name = "enterprise_monthly" -> Plan("Enterprise", TRUE)
      [] plan_name = "enterprise_annual" -> Plan("Enterprise", FALSE)
      [] OTHER -> Free

\* The UserSubscription activate_subscription builds.
NewSubscription(email, customer_id, subscription_id, plan_name, uuid, now_) ==
    [user_id |-> uuid, email |-> email,
     stripe_customer_id |-> customer_id,
     stripe_subscription_id |-> subscription_id,
     plan |-> PlanOf(plan_name), status |-> "Active",
     activated_at |-> now_, current_period_end |-> None]

\* HashMap::insert
MapInsert(map, key, value) ==
    [k \in DOMAIN map \cup {key} |-> IF k = key THEN value ELSE map[k]]

\* An activation that keeps the provider ids of the prior record where the
\* new ones are absent.
ActivateMerging(store, email, customer_id, subscription_id, plan_name, uuid, now_) ==
    MapInsert(store, email,
        NewSubscription(email,
            IF ~customer_id.some /\ email \in DOMAIN store
                THEN store[email].stripe_customer_id ELSE customer_id,
            IF ~subscription_id.some /\ email \in DOMAIN store
                THEN store[email].stripe_subscription_id ELSE subscription_id,
            plan_name, uuid, now_))

\* The registry after activate_subscription.
activate_subscription(store, email, customer_id, subscription_id, plan_name, uuid, now_) ==
    MapInsert(store, email,
              NewSubscription(email, customer_id, subscription_id, plan_name, uuid, now_))

\* The placeholder carried by an Option<UserSubscription> that is None.
NoSubscription ==
    [user_id |-> 0, email |-> "",
     stripe_customer_id |-> None, stripe_subscription_id |-> None,
     plan |-> Free, status |-> "", activated_at |-> 0,
     current_period_end |-> None]

\* get_by_email
get_by_email(store, email) ==
    IF email \in DOMAIN store
        THEN [some |-> TRUE, v |-> store[email]]
        ELSE [some |-> FALSE, v |-> NoSubscription]

\* A cancel that marks every record.
CancelEverySubscription(store, email) ==
    IF email \in DOMAIN store
        THEN [k \in DOMAIN store |-> [store[k] EXCEPT !.status = "Canceled"]]
        ELSE store

\* A cancel that changes no record.
CancelNothing(store, email) == store

\* A cancel that removes the record.
RemoveSubscription(store, email) ==
    [k \in DOMAIN store \ {email} |-> store[k]]

\* The registry after cancel_subscription; its return value is CancelFound.
cancel_subscription(store, email) ==
    IF email \in DOMAIN store
        THEN [store EXCEPT ![email].status = "Canceled"]
        ELSE store

CancelFound(store, email) == email \in DOMAIN store

\* -------------------------------------------------------------------------
\* Idempotency store
\* -------------------------------------------------------------------------
\* EventResult
Success(uuid) == [tag |-> "Success", user_id |-> uuid, plan |-> "processed", error |-> ""]

Failed(error) == [tag |-> "Failed", user_id |-> 0, plan |-> "", error |-> error]

\* ProcessedEvent
ProcessedEvent(event_id, processed_at, result) ==
    [event_id |-> event_id, processed_at |-> processed_at, result |-> result]

\* The value set_ex stores under "event:{id}" and the time the key expires.
RedisValue(result, now_) == [json |-> result, expires_at |-> now_ + RetentionTTL]

\* EXISTS event:{id}
RedisExists(store, event_id, now_) ==
    event_id \in DOMAIN store /\ now_ < store[event_id].expires_at

\* is_processed: conn_ok is the outcome of get_multiplexed_async_connection,
\* cmd_ok that of the EXISTS command (an error reads as false).
is_processed(client, conn_ok, cmd_ok, rstore, fallback, event_id, now_) ==
    IF client /\ conn_ok
        THEN cmd_ok /\ RedisExists(rstore, event_id, now_)
        ELSE event_id \in DOMAIN fallback

\* The Redis store after mark_processed (a failed SET is dropped).
mark_processed_redis(client, conn_ok, cmd_ok, rstore, event_id, result, now_) ==
    IF client /\ conn_ok /\ cmd_ok
        THEN MapInsert(rstore, event_id, RedisValue(result, now_))
        ELSE rstore

\* A mark_processed without the in-memory write.
MarkWithoutFallback(client, conn_ok, fallback, event_id, result, now_) == fallback

\* The in-memory store after mark_processed (written only when no connection
\* was obtained).
mark_processed_fallback(client, conn_ok, fallback, event_id, result, now_) ==
    IF client /\ conn_ok
        THEN fallback
        ELSE MapInsert(fallback, event_id, ProcessedEvent(event_id, now_, result))

\* -------------------------------------------------------------------------
\* State
\* -------------------------------------------------------------------------
VARIABLES
    redis_client,               \* IdempotencyStore.redis_client is Some
    redis_up,                   \* the Redis server accepts connections
    redis,                      \* keys "event:{id}" held by Redis
    processed_events_fallback,  \* IdempotencyStore.processed_events_fallback
    subscriptions,              \* SubscriptionManager.subscriptions
    now,                        \* Utc::now().timestamp()
    overflow_checks,            \* the build panics on arithmetic overflow
    pc,                         \* per task: where stripe_webhook_handler is
    req,                        \* per task: headers and body
    result,                     \* per task: the handler's Result
    response,                   \* per task: the response sent
    mutations,                  \* per event id: registry writes by handlers
    marked,                     \* per event id: mark_processed calls
    predecessors,               \* per task: the tasks that had ended when it arrived
    subscriptions_lock,         \* the RwLock around SubscriptionManager.subscriptions
    fallback_lock,              \* the RwLock around processed_events_fallback
    call                        \* the latest direct call of a public function

vars == <<redis_client, redis_up, redis, processed_events_fallback,
          subscriptions, now, overflow_checks, pc, req, result, response,
          mutations, marked, predecessors, subscriptions_lock, fallback_lock, call>>

\* tokio::sync::RwLock: the tasks holding a read guard and the task holding
\* the write guard (0: none).
Unlocked == [readers |-> {}, writer |-> 0]

\* No direct call has been made.
NoCall == [seq |-> 0, op |-> "none"]

\* What a webhook step leaves alone besides the variables it names: a guard
\* is taken and dropped within the step, and no direct call is made.
guards_and_calls == <<subscriptions_lock, fallback_lock, call>>

Response(status, body) == [status |-> status, body |-> body]

NoResponse == Response(0, "")

\* Uuid::new_v4(): a fresh value at every call site of every task.
NewUuid(t, site) == 2 * t + site

\* -------------------------------------------------------------------------
\* Requests
\* -------------------------------------------------------------------------
Request(header, body) == [header |-> header, body |-> body]

NoRequest == Request(NoHeader, MalformedBody)

\* "t={ts},v1={hex}" where hex signs "{ts}.{body}" with secret.
SignedHeader(ts, body, secret) ==
    Header(<< Part("t", NumStr(ts)),
              Part("v1", HexStr(HmacHex(secret, ts, as_bytes(body)))) >>)

Email == "a@x.com"

EventBodies ==
    UNION {{CheckoutBody(id, Some(Email), Some("pro_monthly")),
            BadCheckoutBody(id),
            LifecycleBody(id, "invoice.paid", Some(Email)),
            LifecycleBody(id, "invoice.payment_failed", Some(Email)),
            LifecycleBody(id, "customer.subscription.deleted", Some(Email)),
            LifecycleBody(id, "customer.subscription.deleted", None),
            LifecycleBody(id, "charge.refunded", None)} : id \in EventIds}

SampleBody == CheckoutBody("evt_1", Some(Email), Some("pro_monthly"))

\* Headers that do not verify, sent with a well-formed event.
BadHeaders(now_) ==
    {NonAsciiHeader,
     Header(<< BarePart("garbage") >>),
     Header(<< Part("t", NumStr(now_)) >>),
     Header(<< Part("t", NumStr(NotNumeric)),
               Part("v1", HexStr(HmacHex(webhook_secret, now_, as_bytes(SampleBody)))) >>),
     SignedHeader(now_ - Tolerance - 1, SampleBody, webhook_secret),
     SignedHeader(now_ + Tolerance + 1, SampleBody, webhook_secret),
     SignedHeader(I64Min, SampleBody, webhook_secret),
     SignedHeader(now_, SampleBody, "whsec_attacker"),
     SignedHeader(now_, BadCheckoutBody("evt_2"), webhook_secret)}

Requests(now_) ==
    {Request(NoHeader, SampleBody)}
    \cup {Request(h, SampleBody) : h \in BadHeaders(now_)}
    \cup {Request(SignedHeader(now_, b, webhook_secret), b) :
              b \in EventBodies \cup {MalformedBody}}
    \cup {Request(SignedHeader(now_ - Tolerance, SampleBody, webhook_secret), SampleBody),
          Request(SignedHeader(now_ + Tolerance, SampleBody, webhook_secret), SampleBody),
          Request(SignedHeader(now_ + I64Min, SampleBody, webhook_secret), SampleBody)}
    \cup {Request(SignedHeader(now_, MalformedBody, "whsec_attacker"), MalformedBody),
          Request(SignedHeader(now_ + I64Min, MalformedBody, webhook_secret), MalformedBody)}

\* -------------------------------------------------------------------------
\* stripe_webhook_handler
\* -------------------------------------------------------------------------
Step(next, resp) == [pc |-> next, response |-> resp]

\* The handler up to its first await: header lookup, signature gate, parse.
Admission(request, now_, checks) ==
    IF ~request.header.present
        THEN Step("done", Response(StatusBadRequest, "Missing signature"))
    ELSE IF verify_webhook_signature(as_bytes(request.body),
                SignatureParts(request.header), webhook_secret, now_, checks) = "panic"
        THEN Step("panicked", NoResponse)
    ELSE IF verify_webhook_signature(as_bytes(request.body),
                SignatureParts(request.header), webhook_secret, now_, checks) # "Ok"
        THEN Step("done", Response(StatusUnauthorized, "Invalid signature"))
    ELSE IF ~request.body.parses
        THEN Step("done", Response(StatusBadRequest, "Invalid event"))
    ELSE Step("is_processed", NoResponse)

\* The idempotency check with its early return lost: a duplicate goes on to
\* the handler stage.
AfterIdempotencyCheckNoReturn(exists) == Step("handler", NoResponse)

\* After is_processed: the duplicate short-circuit or the handler stage.
AfterIdempotencyCheck(exists) ==
    IF exists
        THEN Step("done", Response(StatusOK, "Already processed"))
        ELSE Step("handler", NoResponse)

\* handle_checkout_completed: the session fails to deserialize.
SessionError == "Failed to parse session"

\* The Result of the handler the event type selects.
HandlerResult(event) ==
    IF event.event_type = "checkout.session.completed" /\ ~event.object_is_session
        THEN "Err"
        ELSE "Ok"

\* A dispatch whose checkout handler skips sessions without customer_email.
HandlerStoreSkippingAnonymous(store, event, t, now_) ==
    CASE event.event_type = "checkout.session.completed" /\ event.object_is_session
            /\ event.customer_email.some ->
            activate_subscription(store, event.customer_email.v,
                event.customer, event.subscription,
                unwrap_or(event.plan, "pro_monthly"), NewUuid(t, 0), now_)
      [] event.event_type = "customer.subscription.deleted" /\ event.customer_email.some ->
            cancel_subscription(store, event.customer_email.v)
      [] OTHER -> store

\* A dispatch whose payment-failed handler marks the customer's record PastDue.
HandlerStoreDunning(store, event, t, now_) ==
    CASE event.event_type = "checkout.session.completed" /\ event.object_is_session ->
            activate_subscription(store, unwrap_or(event.customer_email, ""),
                event.customer, event.subscription,
                unwrap_or(event.plan, "pro_monthly"), NewUuid(t, 0), now_)
      [] event.event_type = "customer.subscription.deleted" /\ event.customer_email.some ->
            cancel_subscription(store, event.customer_email.v)
      [] event.event_type = "invoice.payment_failed" /\ event.customer_email.some
            /\ event.customer_email.v \in DOMAIN store ->
            [store EXCEPT ![event.customer_email.v].status = "PastDue"]
      [] OTHER -> store

\* The registry after the handler the event type selects.
HandlerStore(store, event, t, now_) ==
    CASE event.event_type = "checkout.session.completed" /\ event.object_is_session ->
            activate_subscription(store, unwrap_or(event.customer_email, ""),
                event.customer, event.subscription,
                unwrap_or(event.plan, "pro_monthly"), NewUuid(t, 0), now_)
      [] event.event_type = "customer.subscription.deleted" /\ event.customer_email.some ->
            cancel_subscription(store, event.customer_email.v)
      [] OTHER -> store

\* The handler writes to the registry.
HandlerWrites(store, event) ==
    \/ event.event_type = "checkout.session.completed" /\ event.object_is_session
    \/ /\ event.event_type = "customer.subscription.deleted"
       /\ event.customer_email.some
       /\ CancelFound(store, event.customer_email.v)

\* event_result
EventResultOf(res, t) ==
    IF res = "Ok" THEN Success(NewUuid(t, 1)) ELSE Failed(SessionError)

\* The response after mark_processed.
FinalResponse(res) ==
    IF res = "Ok"
        THEN Response(StatusOK, "Success")
        ELSE Response(StatusInternalServerError, SessionError)

\* -------------------------------------------------------------------------
\* Actions
\* -------------------------------------------------------------------------
Init ==
    /\ redis_client \in BOOLEAN
    /\ redis_up \in BOOLEAN
    /\ (~redis_client => ~redis_up)
    /\ redis = << >>
    /\ processed_events_fallback = << >>
    /\ subscriptions = << >>
    /\ now = StartTime
    /\ overflow_checks \in BOOLEAN
    /\ pc = [t \in Tasks |-> "idle"]
    /\ req = [t \in Tasks |-> NoRequest]
    /\ result = [t \in Tasks |-> "none"]
    /\ response = [t \in Tasks |-> NoResponse]
    /\ mutations = [id \in EventIds |-> 0]
    /\ marked = [id \in EventIds |-> 0]
    /\ predecessors = [t \in Tasks |-> {}]
    /\ subscriptions_lock = Unlocked
    /\ fallback_lock = Unlocked
    /\ call = NoCall

\* The tasks whose request has ended (responded or panicked).
Ended == {u \in Tasks : pc[u] \in {"done", "panicked"}}

\* A request arrives and runs to its first await (or to its response).
Receive(t, request) ==
    /\ pc[t] = "idle"
    /\ \A u \in Tasks : u < t => pc[u] # "idle"
    /\ req' = [req EXCEPT ![t] = request]
    /\ pc' = [pc EXCEPT ![t] = Admission(request, now, overflow_checks).pc]
    /\ response' = [response EXCEPT ![t] = Admission(request, now, overflow_checks).response]
    /\ predecessors' = [predecessors EXCEPT ![t] = Ended]
    /\ UNCHANGED <<redis_client, redis_up, redis, processed_events_fallback,
                   subscriptions, now, overflow_checks, result, mutations, marked>>
    /\ UNCHANGED guards_and_calls

\* state.idempotency.is_processed(&event.id).await
CheckProcessed(t, cmd_ok) ==
    /\ pc[t] = "is_processed"
    /\ pc' = [pc EXCEPT ![t] = AfterIdempotencyCheck(
                is_processed(redis_client, redis_up, cmd_ok, redis,
                             processed_events_fallback, req[t].body.id, now)).pc]
    /\ response' = [response EXCEPT ![t] = AfterIdempotencyCheck(
                is_processed(redis_client, redis_up, cmd_ok, redis,
                             processed_events_fallback, req[t].body.id, now)).response]
    /\ UNCHANGED <<redis_client, redis_up, redis, processed_events_fallback,
                   subscriptions, now, overflow_checks, req, result, mutations, marked, predecessors>>
    /\ UNCHANGED guards_and_calls

\* match event.event_type.as_str() { .. }
RunHandler(t) ==
    /\ pc[t] = "handler"
    /\ subscriptions' = HandlerStore(subscriptions, req[t].body, t, now)
    /\ result' = [result EXCEPT ![t] = HandlerResult(req[t].body)]
    /\ mutations' = [mutations EXCEPT ![req[t].body.id] =
                        @ + (IF HandlerWrites(subscriptions, req[t].body) THEN 1 ELSE 0)]
    /\ pc' = [pc EXCEPT ![t] = "mark_processed"]
    /\ UNCHANGED <<redis_client, redis_up, redis, processed_events_fallback,
                   now, overflow_checks, req, response, marked, predecessors>>
    /\ UNCHANGED guards_and_calls

\* state.idempotency.mark_processed(event.id, event_result).await, then the
\* response.
MarkProcessed(t, cmd_ok) ==
    /\ pc[t] = "mark_processed"
    /\ redis' = mark_processed_redis(redis_client, redis_up, cmd_ok, redis,
                    req[t].body.id, EventResultOf(result[t], t), now)
    /\ processed_events_fallback' =
            mark_processed_fallback(redis_client, redis_up, processed_events_fallback,
                    req[t].body.id, EventResultOf(result[t], t), now)
    /\ marked' = [marked EXCEPT ![req[t].body.id] = @ + 1]
    /\ response' = [response EXCEPT ![t] = FinalResponse(result[t])]
    /\ pc' = [pc EXCEPT ![t] = "done"]
    /\ UNCHANGED <<redis_client, redis_up, subscriptions, now, overflow_checks,
                   req, result, mutations, predecessors>>
    /\ UNCHANGED guards_and_calls

\* The Redis server becomes unreachable, or reachable again.
RedisOutage ==
    /\ redis_client /\ redis_up
    /\ redis_up' = FALSE
    /\ UNCHANGED <<redis_client, redis, processed_events_fallback, subscriptions,
                   now, overflow_checks, pc, req, result, response, mutations, marked,
                   predecessors>>
    /\ UNCHANGED guards_and_calls

RedisRecover ==
    /\ redis_client /\ ~redis_up
    /\ redis_up' = TRUE
    /\ UNCHANGED <<redis_client, redis, processed_events_fallback, subscriptions,
                   now, overflow_checks, pc, req, result, response, mutations, marked,
                   predecessors>>
    /\ UNCHANGED guards_and_calls

\* Keys whose TTL has not run out at time now_.
Unexpired(store, now_) ==
    [k \in {j \in DOMAIN store : now_ < store[j].expires_at} |-> store[k]]

\* The retention window passes: Redis drops the keys set before it.
Tick ==
    /\ now < StartTime + MaxTicks * RetentionTTL
    /\ now' = now + RetentionTTL
    /\ redis' = Unexpired(redis, now + RetentionTTL)
    /\ UNCHANGED <<redis_client, redis_up, processed_events_fallback, subscriptions,
                   overflow_checks, pc, req, result, response, mutations, marked,
                   predecessors>>
    /\ UNCHANGED guards_and_calls

\* A Redis command may fail only where a connection was obtained.
CommandOutcomes == IF redis_client /\ redis_up THEN BOOLEAN ELSE {TRUE}

Next ==
    \/ \E t \in Tasks : \E request \in Requests(now) : Receive(t, request)
    \/ \E t \in Tasks : \E cmd_ok \in CommandOutcomes : CheckProcessed(t, cmd_ok)
    \/ \E t \in Tasks : RunHandler(t)
    \/ \E t \in Tasks : \E cmd_ok \in CommandOutcomes : MarkProcessed(t, cmd_ok)
    \/ RedisOutage
    \/ RedisRecover
    \/ Tick

Spec == Init /\ [][Next]_vars

\* -------------------------------------------------------------------------
\* Vocabulary of the properties
\* -------------------------------------------------------------------------
\* The signature header does not authenticate the body at time now_, by the
\* rules of the verifier's contract: a "t" and a "v1" field, a timestamp that
\* parses, |now - t| <= 300, and v1 the keyed hash of "{t}.{body}".
SignatureInvalid(request, now_) ==
    IF ~PartsHas(SignatureParts(request.header), "t") THEN TRUE
    ELSE IF ~PartsHas(SignatureParts(request.header), "v1") THEN TRUE
    ELSE IF ~ParsesAsI64(PartsGet(SignatureParts(request.header), "t")) THEN TRUE
    ELSE IF Abs(now_ - PartsGet(SignatureParts(request.header), "t").num) > Tolerance
        THEN TRUE
    ELSE PartsGet(SignatureParts(request.header), "v1").mac #
            HmacHex(webhook_secret, PartsGet(SignatureParts(request.header), "t").num,
                    as_bytes(request.body))

\* Task t takes the step in which its request arrives.
Arrives(t) == pc[t] = "idle" /\ pc'[t] # "idle"

\* The ledger and the registry, with their write counters.
business == <<subscriptions, redis, processed_events_fallback, mutations, marked>>

\* Task t's request passed the signature gate and parsed as an event.
Admitted(t) ==
    \/ pc[t] \in {"is_processed", "handler", "mark_processed"}
    \/ pc[t] = "done" /\ response[t].body \in {"Already processed", "Success", SessionError}

\* The admitted deliveries of event id.
DeliveriesOf(id) == {t \in Tasks : Admitted(t) /\ req[t].body.id = id}

\* -------------------------------------------------------------------------
\* Properties
\* -------------------------------------------------------------------------
\* C1: a request whose signature does not verify (no t or v1, unparsable or
\* out-of-tolerance timestamp, hash mismatch) ends at once with 401, runs no
\* handler and leaves the registry and the ledger as they were.
C1_RejectedLeavesNoTrace ==
    [][\A t \in Tasks :
        (Arrives(t) /\ req'[t].header.present /\ SignatureInvalid(req'[t], now))
        => /\ pc'[t] = "done"
           /\ response'[t].status = StatusUnauthorized
           /\ result'[t] = "none"
           /\ business' = business]_vars

\* C2: for every event id, handlers write to the registry at most once,
\* whatever the number and interleaving of its deliveries.
C2_AppliedAtMostOnce == \A id \in EventIds : mutations[id] <= 1

\* C3: a verified checkout event delivered twice, the second delivery
\* arriving after the first responded, gives one registry write, 200 for
\* the first and 200 "Already processed" for the second.
C3_RedeliveryDeduplicated ==
    \A t1, t2 \in Tasks :
        (/\ t1 \in predecessors[t2]
         /\ pc[t2] = "done"
         /\ Admitted(t1) /\ Admitted(t2)
         /\ req[t1].body = req[t2].body
         /\ HandlerResult(req[t1].body) = "Ok"
         /\ req[t1].body.event_type = "checkout.session.completed"
         /\ DeliveriesOf(req[t1].body.id) = {t1, t2})
        => /\ response[t1] = Response(StatusOK, "Success")
           /\ response[t2] = Response(StatusOK, "Already processed")
           /\ mutations[req[t1].body.id] = 1

\* C4: right after mark_processed(id, _) returns, is_processed(id) is true,
\* whether or not the store is configured, whatever its reachability at the
\* second call, and whether or not a command fails.
C4_WriteVisibility ==
    [][\A t \in Tasks :
        (pc[t] = "mark_processed" /\ pc'[t] = "done")
        => \A conn_ok \in (IF redis_client THEN BOOLEAN ELSE {FALSE}) :
           \A cmd_ok \in (IF redis_client /\ conn_ok THEN BOOLEAN ELSE {TRUE}) :
              is_processed(redis_client, conn_ok, cmd_ok, redis',
                           processed_events_fallback', req[t].body.id, now)]_vars

\* C5: an event id has at most one ledger entry, and an entry once written
\* keeps its content.
C5_LedgerEntryImmutable ==
    [][\A id \in EventIds :
        /\ ~(id \in DOMAIN redis' /\ id \in DOMAIN processed_events_fallback')
        /\ (id \in DOMAIN processed_events_fallback /\ now' = now)
            => (/\ id \in DOMAIN processed_events_fallback'
                /\ processed_events_fallback'[id] = processed_events_fallback[id])
        /\ (id \in DOMAIN redis /\ now' = now)
            => (id \in DOMAIN redis' /\ redis'[id] = redis[id])]_vars

\* C6: over all deliveries of an event id mark_processed is called exactly
\* once, after the handler stage, with Success for Ok and Failed for Err.
C6_MarkedExactlyOnce ==
    \A id \in EventIds :
        /\ marked[id] <= 1
        /\ (\E t \in DeliveriesOf(id) : pc[t] = "done") => marked[id] = 1

\* C7: the status is decided by the outcome: 400 without a signature header,
\* 401 when the signature does not verify, 400 when the body is no event,
\* 200 for a duplicate or a handler success, 500 for a handler failure.
C7_StatusByOutcome ==
    [][\A t \in Tasks :
        /\ (Arrives(t) /\ ~req'[t].header.present)
            => (pc'[t] = "done" /\ response'[t].status = StatusBadRequest)
        /\ (Arrives(t) /\ req'[t].header.present /\ SignatureInvalid(req'[t], now))
            => (pc'[t] = "done" /\ response'[t].status = StatusUnauthorized)
        /\ (Arrives(t) /\ req'[t].header.present /\ ~SignatureInvalid(req'[t], now)
                /\ ~req'[t].body.parses)
            => (pc'[t] = "done" /\ response'[t].status = StatusBadRequest)
        /\ (pc[t] = "is_processed" /\ pc'[t] = "done")
            => response'[t].status = StatusOK
        /\ (pc[t] = "mark_processed" /\ pc'[t] = "done" /\ result[t] = "Ok")
            => response'[t].status = StatusOK
        /\ (pc[t] = "mark_processed" /\ pc'[t] = "done" /\ result[t] = "Err")
            => response'[t].status = StatusInternalServerError
        /\ response'[t].status \in {0, StatusOK, StatusBadRequest, StatusUnauthorized,
                                    StatusInternalServerError}]_vars

\* The ledger holds an entry for id with the given outcome tag.
RecordedAs(id, tag) ==
    \/ id \in DOMAIN redis /\ redis[id].json.tag = tag
    \/ id \in DOMAIN processed_events_fallback
        /\ processed_events_fallback[id].result.tag = tag

\* Every delivery of id that arrived after delivery t1 ended and has itself
\* ended was answered 200 "Already processed" without running a handler.
LaterDeliveriesDeduplicated(t1) ==
    \A t2 \in DeliveriesOf(req[t1].body.id) :
        (t1 \in predecessors[t2] /\ pc[t2] = "done")
        => (response[t2] = Response(StatusOK, "Already processed") /\ result[t2] = "none")

\* C8: a checkout event whose session does not parse leaves the registry
\* unchanged, is recorded as Failed, is answered 500, and every later
\* delivery of its id is answered 200 "Already processed" with no handler run.
C8_FailedEventRecorded ==
    [][\A t \in Tasks :
        /\ (pc[t] = "handler" /\ pc'[t] # "handler" /\ HandlerResult(req[t].body) = "Err")
            => (subscriptions' = subscriptions /\ result'[t] = "Err")
        /\ (pc[t] = "mark_processed" /\ pc'[t] = "done" /\ result[t] = "Err")
            => (/\ response'[t].status = StatusInternalServerError
                /\ RecordedAs(req[t].body.id, "Failed")')
        /\ (pc'[t] = "done" /\ result'[t] = "Err")
            => LaterDeliveriesDeduplicated(t)']_vars

\* C9: when is_processed returns true the request ends with 200 "Already
\* processed", runs no handler and writes neither the registry nor the
\* ledger; the handler stage is entered only when is_processed returned false.
C9_DuplicateShortCircuits ==
    [][\A t \in Tasks :
        /\ (pc[t] = "is_processed" /\ pc'[t] # "is_processed")
            => \/ /\ \E cmd_ok \in CommandOutcomes :
                        is_processed(redis_client, redis_up, cmd_ok, redis,
                                     processed_events_fallback, req[t].body.id, now)
                  /\ pc'[t] = "done"
                  /\ response'[t] = Response(StatusOK, "Already processed")
                  /\ result'[t] = "none"
                  /\ business' = business
               \/ /\ \E cmd_ok \in CommandOutcomes :
                        ~is_processed(redis_client, redis_up, cmd_ok, redis,
                                      processed_events_fallback, req[t].body.id, now)
                  /\ pc'[t] = "handler"
                  /\ business' = business
        /\ (pc[t] = "done" /\ response[t].body = "Already processed")
            => (pc'[t] = "done" /\ response'[t] = response[t] /\ result'[t] = "none")]_vars

\* A duplicate was answered "Already processed" after its event was applied.
C9_Witness ==
    \E t \in Tasks :
        /\ pc[t] = "done"
        /\ response[t] = Response(StatusOK, "Already processed")
        /\ mutations[req[t].body.id] = 1
        /\ marked[req[t].body.id] = 1

\* The event types with a handler of their own.
RecognizedTypes ==
    {"checkout.session.completed", "invoice.paid", "invoice.payment_failed",
     "customer.subscription.deleted"}

\* C10: a verified, not yet processed event of an unrecognized type is
\* answered 200, writes nothing to the registry, and is recorded as Success,
\* so that a later delivery of its id is answered "Already processed".
C10_UnknownTypeIsNoOp ==
    [][\A t \in Tasks :
        /\ (pc[t] = "handler" /\ pc'[t] # "handler"
                /\ req[t].body.event_type \notin RecognizedTypes)
            => (/\ subscriptions' = subscriptions
                /\ mutations' = mutations
                /\ result'[t] = "Ok")
        /\ (pc[t] = "mark_processed" /\ pc'[t] = "done"
                /\ req[t].body.event_type \notin RecognizedTypes)
            => (/\ response'[t] = Response(StatusOK, "Success")
                /\ RecordedAs(req[t].body.id, "Success")')
        /\ (pc'[t] = "done" /\ response'[t].body = "Success"
                /\ req'[t].body.event_type \notin RecognizedTypes)
            => LaterDeliveriesDeduplicated(t)']_vars

\* -------------------------------------------------------------------------
\* Direct calls of the subscription manager
\* -------------------------------------------------------------------------
\* Number of direct calls in one run.
MaxCalls == 3

Emails == {"a@x.com", "b@x.com"}

PlanCodes ==
    {"pro_monthly", "pro_annual", "enterprise_monthly", "enterprise_annual",
     "PRO_MONTHLY", ""}

\* The provider ids a caller passes: both, the customer only, or none.
ProviderIds ==
    {[customer |-> Some("cus_1"), subscription |-> Some("sub_1")],
     [customer |-> Some("cus_2"), subscription |-> None],
     [customer |-> None, subscription |-> None]}

\* A direct call: its arguments, the record the key had before it, and what
\* it returned (found: cancel's bool; returned: the subscription handed back).
RegistryCall(seq, op, email, customer_id, subscription_id, plan_name, prior, found, returned) ==
    [seq |-> seq, op |-> op, email |-> email, customer_id |-> customer_id,
     subscription_id |-> subscription_id, plan_name |-> plan_name,
     prior |-> prior, found |-> found, returned |-> returned]

\* Everything but the registry, the clock and the call record is at rest.
WebhookIdle ==
    /\ redis_client = FALSE
    /\ redis_up = FALSE
    /\ redis = << >>
    /\ processed_events_fallback = << >>
    /\ pc = [t \in Tasks |-> "idle"]
    /\ req = [t \in Tasks |-> NoRequest]
    /\ result = [t \in Tasks |-> "none"]
    /\ response = [t \in Tasks |-> NoResponse]
    /\ mutations = [id \in EventIds |-> 0]
    /\ marked = [id \in EventIds |-> 0]
    /\ predecessors = [t \in Tasks |-> {}]
    /\ subscriptions_lock = Unlocked
    /\ fallback_lock = Unlocked

webhook_vars ==
    <<redis_client, redis_up, redis, processed_events_fallback, overflow_checks,
      pc, req, result, response, mutations, marked, predecessors,
      subscriptions_lock, fallback_lock>>

InitRegistry ==
    /\ WebhookIdle
    /\ overflow_checks = FALSE
    /\ now = StartTime
    /\ subscriptions = << >>
    /\ call = RegistryCall(0, "none", "", None, None, "",
                           get_by_email(<< >>, ""), FALSE, get_by_email(<< >>, ""))

\* SubscriptionManager::activate_subscription(email, customer, subscription, plan)
Activate(email, ids, plan_name) ==
    /\ call.seq < MaxCalls
    /\ subscriptions' = activate_subscription(subscriptions, email, ids.customer,
                            ids.subscription, plan_name, NewUuid(call.seq + 1, 0), now)
    /\ call' = RegistryCall(call.seq + 1, "activate_subscription", email,
                    ids.customer, ids.subscription, plan_name,
                    get_by_email(subscriptions, email), TRUE,
                    [some |-> TRUE,
                     v |-> NewSubscription(email, ids.customer, ids.subscription,
                                           plan_name, NewUuid(call.seq + 1, 0), now)])
    /\ UNCHANGED <<now, webhook_vars>>

\* SubscriptionManager::cancel_subscription(email)
Cancel(email) ==
    /\ call.seq < MaxCalls
    /\ subscriptions' = cancel_subscription(subscriptions, email)
    /\ call' = RegistryCall(call.seq + 1, "cancel_subscription", email, None, None, "",
                    get_by_email(subscriptions, email),
                    CancelFound(subscriptions, email),
                    get_by_email(<< >>, ""))
    /\ UNCHANGED <<now, webhook_vars>>

\* SubscriptionManager::get_by_email(email)
GetByEmail(email) ==
    /\ call.seq < MaxCalls
    /\ call' = RegistryCall(call.seq + 1, "get_by_email", email, None, None, "",
                    get_by_email(subscriptions, email),
                    email \in DOMAIN subscriptions,
                    get_by_email(subscriptions, email))
    /\ UNCHANGED <<subscriptions, now, webhook_vars>>

NextRegistry ==
    \/ \E email \in Emails : \E ids \in ProviderIds : \E plan_name \in PlanCodes :
            Activate(email, ids, plan_name)
    \/ \E email \in Emails : Cancel(email)
    \/ \E email \in Emails : GetByEmail(email)

SpecRegistry == InitRegistry /\ [][NextRegistry]_vars

\* The step is a direct call of op.
Calls(op) == call'.seq = call.seq + 1 /\ call'.op = op

\* The plan table of the contract.
PlanTable(code) ==
    CASE code = "pro_monthly" -> [tier |-> "Pro", monthly |-> TRUE]
      [] code = "pro_annual" -> [tier |-> "Pro", monthly |-> FALSE]
      [] code = "enterprise_monthly" -> [tier |-> "Enterprise", monthly |-> TRUE]
      [] code = "enterprise_annual" -> [tier |-> "Enterprise", monthly |-> FALSE]
      [] OTHER -> [tier |-> "Free", monthly |-> FALSE]

\* C11: activate(k, .., c) followed by get(k) returns a subscription with
\* status Active whose plan is the table entry of c, Free for any code not
\* in the table; activate hands back that subscription and never an error.
C11_ActivateThenGet ==
    [][Calls("activate_subscription")
        => /\ get_by_email(subscriptions', call'.email).some
           /\ get_by_email(subscriptions', call'.email).v.status = "Active"
           /\ get_by_email(subscriptions', call'.email).v.plan = PlanTable(call'.plan_name)
           /\ call'.returned = get_by_email(subscriptions', call'.email)]_vars

\* An annual enterprise plan and an unknown code have both been activated.
C11_Witness ==
    /\ call.op = "activate_subscription"
    /\ call.plan_name = "PRO_MONTHLY"
    /\ subscriptions[call.email].plan = Free
    /\ \E k \in DOMAIN subscriptions : subscriptions[k].plan = Plan("Enterprise", FALSE)

\* C12: cancel of an absent key returns false and changes nothing; cancel of
\* a present key returns true, sets that record's status to Canceled, keeps
\* its other fields and all other records, and a second cancel changes nothing.
C12_CancelContract ==
    [][Calls("cancel_subscription")
        => IF call'.email \notin DOMAIN subscriptions
            THEN ~call'.found /\ subscriptions' = subscriptions
            ELSE /\ call'.found
                 /\ DOMAIN subscriptions' = DOMAIN subscriptions
                 /\ \A k \in DOMAIN subscriptions \ {call'.email} :
                        subscriptions'[k] = subscriptions[k]
                 /\ subscriptions'[call'.email].status = "Canceled"
                 /\ [subscriptions'[call'.email] EXCEPT !.status = ""]
                        = [subscriptions[call'.email] EXCEPT !.status = ""]
                 /\ cancel_subscription(subscriptions', call'.email) = subscriptions'
                 /\ CancelFound(subscriptions', call'.email)]_vars

\* A present key was cancelled while another key holds an active record.
C12_Witness ==
    /\ call.op = "cancel_subscription"
    /\ call.found
    /\ call.prior.v.status = "Active"
    /\ subscriptions[call.email].status = "Canceled"
    /\ \E k \in DOMAIN subscriptions : subscriptions[k].status = "Active"

\* C13: an activation of a key that has a record replaces it: the new record
\* has the given provider ids (absent if not given), the plan of the code,
\* status Active, no current_period_end, is the record the same call gives
\* on an empty registry, and the records of other keys are unchanged.
C13_ActivationReplaces ==
    [][Calls("activate_subscription")
        => /\ DOMAIN subscriptions' = DOMAIN subscriptions \cup {call'.email}
           /\ \A k \in DOMAIN subscriptions \ {call'.email} :
                  subscriptions'[k] = subscriptions[k]
           /\ subscriptions'[call'.email].stripe_customer_id = call'.customer_id
           /\ subscriptions'[call'.email].stripe_subscription_id = call'.subscription_id
           /\ subscriptions'[call'.email].plan = PlanTable(call'.plan_name)
           /\ subscriptions'[call'.email].status = "Active"
           /\ ~subscriptions'[call'.email].current_period_end.some
           /\ subscriptions'[call'.email].email = call'.email
           /\ call'.prior.some =>
                subscriptions'[call'.email].user_id # call'.prior.v.user_id
           /\ subscriptions'[call'.email] =
                activate_subscription(<< >>, call'.email, call'.customer_id,
                    call'.subscription_id, call'.plan_name,
                    NewUuid(call'.seq, 0), now)[call'.email]]_vars

\* A cancelled record with provider ids was replaced by an activation
\* without them.
C13_Witness ==
    /\ call.op = "activate_subscription"
    /\ call.prior.some
    /\ call.prior.v.status = "Canceled"
    /\ call.prior.v.stripe_customer_id.some
    /\ ~call.customer_id.some
    /\ subscriptions[call.email].status = "Active"
    /\ ~subscriptions[call.email].stripe_customer_id.some

\* -------------------------------------------------------------------------
\* Direct calls of verify_webhook_signature
\* -------------------------------------------------------------------------
\* One byte that is not part of any valid UTF-8 sequence.
InvalidByte(b) == [valid |-> FALSE, byte |-> b, doc |-> MalformedBody]

\* payload: &[u8] -- text, bytes that are no UTF-8, the UTF-8 encoding of
\* U+FFFD, and text followed by a stray byte.
Payloads ==
    {as_bytes(SampleBody),
     as_bytes(BadCheckoutBody("evt_2")),
     << InvalidByte(255) >>,
     << InvalidByte(254) >>,
     << ReplacementChar >>,
     as_bytes(SampleBody) \o << InvalidByte(255) >>}

\* The sender's side: "t={ts},v1={hex}" where hex is the keyed hash of the
\* bytes "{ts}.{payload}".
SignBytes(ts, payload, secret) ==
    Header(<< Part("t", NumStr(ts)), Part("v1", HexStr(HmacHex(secret, ts, payload))) >>)

\* Timestamps around the tolerance and at the ends of the i64 range.
Timestamps(now_) ==
    {now_, now_ - Tolerance, now_ + Tolerance, now_ - Tolerance - 1,
     now_ + Tolerance + 1, I64Min, I64Max, now_ - I64Max, now_ + I64Min}

\* A direct call: the payload the sender signed, the payload handed to the
\* verifier, the header's timestamp, the sender's secret, and the outcome.
VerifyCall(signed, received, ts, secret, verdict) ==
    [op |-> "verify_webhook_signature", signed |-> signed, received |-> received,
     ts |-> ts, secret |-> secret, verdict |-> verdict]

InitVerify ==
    /\ WebhookIdle
    /\ subscriptions = << >>
    /\ now = StartTime
    /\ overflow_checks \in BOOLEAN
    /\ call \in {VerifyCall(signed, received, ts, secret, "pending") :
                    signed \in Payloads, received \in Payloads,
                    ts \in Timestamps(StartTime),
                    secret \in {webhook_secret, "whsec_attacker"}}

\* verify_webhook_signature(payload, signature_header, webhook_secret)
VerifySignature ==
    /\ call.verdict = "pending"
    /\ call' = [call EXCEPT !.verdict =
                    verify_webhook_signature(call.received,
                        SignatureParts(SignBytes(call.ts, call.signed, call.secret)),
                        webhook_secret, now, overflow_checks)]
    /\ UNCHANGED <<subscriptions, now, webhook_vars>>

NextVerify == VerifySignature

SpecVerify == InitVerify /\ [][NextVerify]_vars

\* The call has returned (or panicked).
Verified == call.verdict # "pending"

\* The payload is valid UTF-8.
IsText(payload) == \A i \in DOMAIN payload : payload[i].valid

\* C14: with a correct hash (here over a text payload) verification succeeds
\* when |now - t| <= 300 and fails with the out-of-tolerance error when
\* |now - t| >= 301, for every t in the i64 range, its extremes included.
C14_FreshnessExact ==
    (/\ Verified
     /\ call.received = call.signed
     /\ IsText(call.signed)
     /\ call.secret = webhook_secret)
    => IF Abs(now - call.ts) <= Tolerance
        THEN call.verdict = "Ok"
        ELSE call.verdict = "Webhook timestamp too old"

\* C15: at a fresh timestamp, a signature made with the secret over
\* "{t}.{payload}" verifies for every byte string, and no payload other than
\* the signed one verifies against that header.
C15_SignatureBindsPayload ==
    (Verified /\ Abs(now - call.ts) <= Tolerance /\ call.secret = webhook_secret)
    => (call.verdict = "Ok" <=> call.received = call.signed)

\* -------------------------------------------------------------------------
\* The webhook with the shared store unreachable throughout
\* -------------------------------------------------------------------------
\* No Redis URL is configured, or the server never accepts a connection.
InitDegraded == Init /\ ~redis_up

NextDegraded ==
    \/ \E t \in Tasks : \E request \in Requests(now) : Receive(t, request)
    \/ \E t \in Tasks : CheckProcessed(t, TRUE)
    \/ \E t \in Tasks : RunHandler(t)
    \/ \E t \in Tasks : MarkProcessed(t, TRUE)
    \/ Tick

SpecDegraded == InitDegraded /\ [][NextDegraded]_vars

\* C16: with the shared store unconfigured or unreachable throughout, the
\* ledger steps use the in-memory map and always let the request go on:
\* is_processed reports an id processed exactly when mark_processed was
\* called for it before, and mark_processed leaves the id in the map and the
\* request answered.
C16_FallbackLedger ==
    [][\A t \in Tasks :
        /\ (pc[t] = "is_processed" /\ pc'[t] # "is_processed")
            => IF marked[req[t].body.id] > 0
                THEN /\ pc'[t] = "done"
                     /\ response'[t] = Response(StatusOK, "Already processed")
                ELSE pc'[t] = "handler"
        /\ (pc[t] = "mark_processed" /\ pc'[t] # "mark_processed")
            => /\ req[t].body.id \in DOMAIN processed_events_fallback'
               /\ redis' = redis
               /\ pc'[t] = "done"
               /\ response'[t] = FinalResponse(result[t])]_vars

\* Redis is configured but down, and a redelivery was answered from the
\* in-memory map, the retention window having passed in between.
C16_Witness ==
    /\ redis_client
    /\ ~redis_up
    /\ now > StartTime
    /\ \E t \in Tasks :
        /\ pc[t] = "done"
        /\ response[t] = Response(StatusOK, "Already processed")
        /\ processed_events_fallback[req[t].body.id].processed_at = StartTime

\* -------------------------------------------------------------------------
\* Lifecycle events and the registry's keys
\* -------------------------------------------------------------------------
\* Task t takes the step that runs the handler of its event.
HandlerRuns(t) == pc[t] = "handler" /\ pc'[t] # "handler"

\* C17: an invoice-paid or payment-failed event leaves the registry as it
\* was; a subscription-deleted event sets status Canceled on the record keyed
\* by its customer_email if there is one and changes nothing else; without a
\* customer_email or with an unknown key it changes nothing, and in every
\* case the handler succeeds and the request is answered 200.
C17_LifecycleFrame ==
    [][\A t \in Tasks :
        /\ (HandlerRuns(t)
                /\ req[t].body.event_type \in {"invoice.paid", "invoice.payment_failed"})
            => (subscriptions' = subscriptions /\ result'[t] = "Ok")
        /\ (HandlerRuns(t) /\ req[t].body.event_type = "customer.subscription.deleted")
            => /\ result'[t] = "Ok"
               /\ IF /\ req[t].body.customer_email.some
                     /\ req[t].body.customer_email.v \in DOMAIN subscriptions
                    THEN /\ DOMAIN subscriptions' = DOMAIN subscriptions
                         /\ \A k \in DOMAIN subscriptions :
                                IF k = req[t].body.customer_email.v
                                    THEN /\ subscriptions'[k].status = "Canceled"
                                         /\ [subscriptions'[k] EXCEPT !.status = ""]
                                                = [subscriptions[k] EXCEPT !.status = ""]
                                    ELSE subscriptions'[k] = subscriptions[k]
                    ELSE subscriptions' = subscriptions
        /\ (pc[t] = "mark_processed" /\ pc'[t] = "done"
                /\ req[t].body.event_type \in {"invoice.paid", "invoice.payment_failed",
                                               "customer.subscription.deleted"})
            => response'[t] = Response(StatusOK, "Success")]_vars

\* A subscription-deleted event has cancelled the record of its customer.
C17_Witness ==
    \E t \in Tasks :
        /\ req[t].body.event_type = "customer.subscription.deleted"
        /\ req[t].body.customer_email.some
        /\ pc[t] = "mark_processed"
        /\ result[t] = "Ok"
        /\ mutations[req[t].body.id] = 1
        /\ req[t].body.customer_email.v \in DOMAIN subscriptions
        /\ subscriptions[req[t].body.customer_email.v].status = "Canceled"

\* C20: a customer key once in the registry stays in it; no event removes a
\* key, only the record under it changes.
C20_KeysOnlyGrow ==
    [][DOMAIN subscriptions \subseteq DOMAIN subscriptions']_vars

\* A cancelled record is still in the registry after its request completed.
C20_Witness ==
    \E t \in Tasks :
        /\ req[t].body.event_type = "customer.subscription.deleted"
        /\ pc[t] = "done"
        /\ response[t] = Response(StatusOK, "Success")
        /\ Email \in DOMAIN subscriptions
        /\ subscriptions[Email].status = "Canceled"

\* -------------------------------------------------------------------------
\* Termination of a request
\* -------------------------------------------------------------------------
\* A step of task t past the arrival of its request.
TaskStep(t) ==
    \/ \E cmd_ok \in CommandOutcomes : CheckProcessed(t, cmd_ok)
    \/ RunHandler(t)
    \/ \E cmd_ok \in CommandOutcomes : MarkProcessed(t, cmd_ok)

\* The runtime keeps polling every task, the RwLocks are granted in FIFO
\* order, and every Redis command returns.
FairSpec == Spec /\ \A t \in Tasks : WF_vars(TaskStep(t))

\* Rejected: answered 400 or 401 before the idempotency check.
Rejected(t) ==
    /\ pc[t] = "done"
    /\ response[t].status \in {StatusBadRequest, StatusUnauthorized}

\* Completed: answered after the idempotency check.
Completed(t) ==
    /\ pc[t] = "done"
    /\ response[t].status \in {StatusOK, StatusInternalServerError}

\* C18: every request that arrived ends in exactly one terminal state,
\* Rejected or Completed, and stays there; its handler runs at most once;
\* and under fair scheduling every request eventually responds.
C18_EveryRequestTerminates ==
    /\ [][\A t \in Tasks :
            /\ (pc[t] # "done" /\ pc'[t] = "done") => (Rejected(t)' # Completed(t)')
            /\ pc[t] = "done" => (pc'[t] = "done" /\ response'[t] = response[t])
            /\ pc[t] \in {"mark_processed", "done"} => pc'[t] # "handler"]_vars
    /\ \A t \in Tasks : (pc[t] # "idle") ~> (Rejected(t) \/ Completed(t))

\* -------------------------------------------------------------------------
\* The webhook at the grain of its lock guards
\* -------------------------------------------------------------------------
\* RwLock::read is granted while no task holds the write guard.
CanRead(lock) == lock.writer = 0

\* RwLock::write is granted while no task holds any guard.
CanWrite(lock) == lock.writer = 0 /\ lock.readers = {}

AcquireRead(lock, t) == [lock EXCEPT !.readers = @ \cup {t}]

AcquireWrite(lock, t) == [lock EXCEPT !.writer = t]

\* A read guard that outlives the function that took it.
KeepRead(lock, t) == lock

\* The read guard is dropped when is_processed returns.
ReleaseRead(lock, t) == [lock EXCEPT !.readers = @ \ {t}]

\* The write guard is dropped when the function that took it returns.
ReleaseWrite(lock, t) == [lock EXCEPT !.writer = 0]

\* A connection to Redis is obtained: the call returns before the RwLock.
SharedStore == redis_client /\ redis_up

\* The handler of the event calls activate_subscription or
\* cancel_subscription, which take the registry's write guard.
TakesRegistryLock(event) ==
    \/ event.event_type = "checkout.session.completed" /\ event.object_is_session
    \/ event.event_type = "customer.subscription.deleted" /\ event.customer_email.some

\* Verified, well-formed deliveries.
AdmittedRequests ==
    {Request(SignedHeader(StartTime, b, webhook_secret), b) :
        b \in {e \in EventBodies : e.id = "evt_1"}
              \cup {CheckoutBody("evt_2", Some(Email), Some("pro_annual"))}}

InitLocks ==
    /\ redis_client \in BOOLEAN
    /\ redis_up \in BOOLEAN
    /\ (~redis_client => ~redis_up)
    /\ redis = << >>
    /\ processed_events_fallback = << >>
    /\ subscriptions = << >>
    /\ now = StartTime
    /\ overflow_checks = FALSE
    /\ pc = [t \in Tasks |-> "is_processed"]
    /\ req \in [Tasks -> AdmittedRequests]
    /\ result = [t \in Tasks |-> "none"]
    /\ response = [t \in Tasks |-> NoResponse]
    /\ mutations = [id \in EventIds |-> 0]
    /\ marked = [id \in EventIds |-> 0]
    /\ predecessors = [t \in Tasks |-> {}]
    /\ subscriptions_lock = Unlocked
    /\ fallback_lock = Unlocked
    /\ call = NoCall

\* is_processed over a Redis connection (lines 116-120): no guard is taken.
CheckShared(t, cmd_ok) ==
    /\ pc[t] = "is_processed"
    /\ SharedStore
    /\ pc' = [pc EXCEPT ![t] = AfterIdempotencyCheck(
                is_processed(redis_client, redis_up, cmd_ok, redis,
                             processed_events_fallback, req[t].body.id, now)).pc]
    /\ response' = [response EXCEPT ![t] = AfterIdempotencyCheck(
                is_processed(redis_client, redis_up, cmd_ok, redis,
                             processed_events_fallback, req[t].body.id, now)).response]
    /\ UNCHANGED <<redis_client, redis_up, redis, processed_events_fallback,
                   subscriptions, now, overflow_checks, req, result, mutations,
                   marked, predecessors, subscriptions_lock, fallback_lock, call>>

\* self.processed_events_fallback.read().await
FallbackReadLock(t) ==
    /\ pc[t] = "is_processed"
    /\ ~SharedStore
    /\ CanRead(fallback_lock)
    /\ fallback_lock' = AcquireRead(fallback_lock, t)
    /\ pc' = [pc EXCEPT ![t] = "is_processed_locked"]
    /\ UNCHANGED <<redis_client, redis_up, redis, processed_events_fallback,
                   subscriptions, now, overflow_checks, req, result, response,
                   mutations, marked, predecessors, subscriptions_lock, call>>

\* store.contains_key(event_id), the guard dropped on return.
FallbackReadUnlock(t) ==
    /\ pc[t] = "is_processed_locked"
    /\ fallback_lock' = ReleaseRead(fallback_lock, t)
    /\ pc' = [pc EXCEPT ![t] = AfterIdempotencyCheck(
                req[t].body.id \in DOMAIN processed_events_fallback).pc]
    /\ response' = [response EXCEPT ![t] = AfterIdempotencyCheck(
                req[t].body.id \in DOMAIN processed_events_fallback).response]
    /\ UNCHANGED <<redis_client, redis_up, redis, processed_events_fallback,
                   subscriptions, now, overflow_checks, req, result, mutations,
                   marked, predecessors, subscriptions_lock, call>>

\* A handler that does not touch the registry.
HandlerLockFree(t) ==
    /\ pc[t] = "handler"
    /\ ~TakesRegistryLock(req[t].body)
    /\ result' = [result EXCEPT ![t] = HandlerResult(req[t].body)]
    /\ pc' = [pc EXCEPT ![t] = "mark_processed"]
    /\ UNCHANGED <<redis_client, redis_up, redis, processed_events_fallback,
                   subscriptions, now, overflow_checks, req, response, mutations,
                   marked, predecessors, subscriptions_lock, fallback_lock, call>>

\* self.subscriptions.write().await
RegistryWriteLock(t) ==
    /\ pc[t] = "handler"
    /\ TakesRegistryLock(req[t].body)
    /\ CanWrite(subscriptions_lock)
    /\ subscriptions_lock' = AcquireWrite(subscriptions_lock, t)
    /\ pc' = [pc EXCEPT ![t] = "handler_locked"]
    /\ UNCHANGED <<redis_client, redis_up, redis, processed_events_fallback,
                   subscriptions, now, overflow_checks, req, result, response,
                   mutations, marked, predecessors, fallback_lock, call>>

\* store.insert(..) or sub.status = Canceled, the guard dropped on return.
RegistryWriteUnlock(t) ==
    /\ pc[t] = "handler_locked"
    /\ subscriptions' = HandlerStore(subscriptions, req[t].body, t, now)
    /\ subscriptions_lock' = ReleaseWrite(subscriptions_lock, t)
    /\ result' = [result EXCEPT ![t] = HandlerResult(req[t].body)]
    /\ mutations' = [mutations EXCEPT ![req[t].body.id] =
                        @ + (IF HandlerWrites(subscriptions, req[t].body) THEN 1 ELSE 0)]
    /\ pc' = [pc EXCEPT ![t] = "mark_processed"]
    /\ UNCHANGED <<redis_client, redis_up, redis, processed_events_fallback,
                   now, overflow_checks, req, response, marked, predecessors,
                   fallback_lock, call>>

\* mark_processed over a Redis connection (lines 129-134): no guard is taken.
MarkShared(t, cmd_ok) ==
    /\ pc[t] = "mark_processed"
    /\ SharedStore
    /\ redis' = mark_processed_redis(redis_client, redis_up, cmd_ok, redis,
                    req[t].body.id, EventResultOf(result[t], t), now)
    /\ marked' = [marked EXCEPT ![req[t].body.id] = @ + 1]
    /\ response' = [response EXCEPT ![t] = FinalResponse(result[t])]
    /\ pc' = [pc EXCEPT ![t] = "done"]
    /\ UNCHANGED <<redis_client, redis_up, processed_events_fallback, subscriptions,
                   now, overflow_checks, req, result, mutations, predecessors,
                   subscriptions_lock, fallback_lock, call>>

\* self.processed_events_fallback.write().await
FallbackWriteLock(t) ==
    /\ pc[t] = "mark_processed"
    /\ ~SharedStore
    /\ CanWrite(fallback_lock)
    /\ fallback_lock' = AcquireWrite(fallback_lock, t)
    /\ pc' = [pc EXCEPT ![t] = "mark_processed_locked"]
    /\ UNCHANGED <<redis_client, redis_up, redis, processed_events_fallback,
                   subscriptions, now, overflow_checks, req, result, response,
                   mutations, marked, predecessors, subscriptions_lock, call>>

\* store.insert(..), the guard dropped on return, then the response.
FallbackWriteUnlock(t) ==
    /\ pc[t] = "mark_processed_locked"
    /\ processed_events_fallback' =
            mark_processed_fallback(redis_client, redis_up, processed_events_fallback,
                    req[t].body.id, EventResultOf(result[t], t), now)
    /\ fallback_lock' = ReleaseWrite(fallback_lock, t)
    /\ marked' = [marked EXCEPT ![req[t].body.id] = @ + 1]
    /\ response' = [response EXCEPT ![t] = FinalResponse(result[t])]
    /\ pc' = [pc EXCEPT ![t] = "done"]
    /\ UNCHANGED <<redis_client, redis_up, redis, subscriptions, now,
                   overflow_checks, req, result, mutations, predecessors,
                   subscriptions_lock, call>>

NextLocks ==
    \/ \E t \in Tasks : \E cmd_ok \in BOOLEAN : CheckShared(t, cmd_ok)
    \/ \E t \in Tasks : FallbackReadLock(t)
    \/ \E t \in Tasks : FallbackReadUnlock(t)
    \/ \E t \in Tasks : HandlerLockFree(t)
    \/ \E t \in Tasks : RegistryWriteLock(t)
    \/ \E t \in Tasks : RegistryWriteUnlock(t)
    \/ \E t \in Tasks : \E cmd_ok \in BOOLEAN : MarkShared(t, cmd_ok)
    \/ \E t \in Tasks : FallbackWriteLock(t)
    \/ \E t \in Tasks : FallbackWriteUnlock(t)

SpecLocks == InitLocks /\ [][NextLocks]_vars

\* Task t holds a guard of the lock.
Holds(lock, t) == t \in lock.readers \/ lock.writer = t

\* The three critical sections of a request, in the order of the handler.
Stage(p) ==
    CASE p \in {"is_processed", "is_processed_locked"} -> 1
      [] p \in {"handler", "handler_locked"} -> 2
      [] p \in {"mark_processed", "mark_processed_locked"} -> 3
      [] OTHER -> 4

\* C19: the ledger check, the registry mutation and the ledger write of a
\* request happen in that order, each guard is held only inside its own
\* section, no task holds a ledger guard and a registry guard together, and
\* while a request is unfinished some task can take a step (no deadlock).
C19_IndependentCriticalSections ==
    /\ [](\A t \in Tasks :
            /\ ~(Holds(fallback_lock, t) /\ Holds(subscriptions_lock, t))
            /\ Holds(fallback_lock, t)
                => pc[t] \in {"is_processed_locked", "mark_processed_locked"}
            /\ Holds(subscriptions_lock, t) => pc[t] = "handler_locked")
    /\ []((\E t \in Tasks : pc[t] # "done") => ENABLED NextLocks)
    /\ [][\A t \in Tasks : Stage(pc'[t]) >= Stage(pc[t])]_vars

\* One task is inside the registry's critical section while another is
\* inside the ledger's, and a third party would have to wait for either.
C19_Witness ==
    \E t1, t2 \in Tasks :
        /\ t1 # t2
        /\ subscriptions_lock.writer = t1
        /\ fallback_lock.writer = t2
        /\ ~CanWrite(subscriptions_lock)
        /\ ~CanRead(fallback_lock)

\* -------------------------------------------------------------------------
\* Retention and parse errors
\* -------------------------------------------------------------------------
\* C21: a ledger entry lives for the retention window only: at every moment
\* each entry of the shared store and of the in-memory map was written less
\* than 24 hours ago, and a delivery is answered "Already processed" only
\* while such an entry exists.
C21_EntriesExpire ==
    /\ [](\A id \in EventIds :
            /\ id \in DOMAIN redis => now < redis[id].expires_at
            /\ id \in DOMAIN processed_events_fallback
                => now < processed_events_fallback[id].processed_at + RetentionTTL)
    /\ [][\A t \in Tasks :
            (pc[t] = "is_processed" /\ pc'[t] = "done")
            => \/ /\ req[t].body.id \in DOMAIN redis
                  /\ now < redis[req[t].body.id].expires_at
               \/ /\ req[t].body.id \in DOMAIN processed_events_fallback
                  /\ now < processed_events_fallback[req[t].body.id].processed_at
                            + RetentionTTL]_vars

\* C22: a request whose signature verifies but whose body is no event
\* envelope is answered 400 and leaves the ledger and the registry as they
\* were, on every delivery; a malformed body whose signature does not verify
\* is answered 401.
C22_ParseErrorAfterVerification ==
    [][\A t \in Tasks :
        /\ (Arrives(t) /\ req'[t].header.present /\ ~req'[t].body.parses
                /\ ~SignatureInvalid(req'[t], now))
            => /\ pc'[t] = "done"
               /\ response'[t] = Response(StatusBadRequest, "Invalid event")
               /\ business' = business
        /\ (Arrives(t) /\ req'[t].header.present /\ ~req'[t].body.parses
                /\ SignatureInvalid(req'[t], now))
            => /\ pc'[t] = "done"
               /\ response'[t].status = StatusUnauthorized]_vars

\* -------------------------------------------------------------------------
\* The event handlers, one event after another
\* -------------------------------------------------------------------------
\* Number of events handled in one run.
MaxEvents == 4

\* Events past the idempotency check: checkout sessions with and without
\* customer_email and plan metadata, and the lifecycle events.
HandledEvents ==
    {CheckoutBody("evt_1", Some(Email), Some("pro_monthly")),
     CheckoutBody("evt_1", None, Some("enterprise_annual")),
     CheckoutBody("evt_1", Some(Email), None),
     CheckoutBody("evt_1", Some(Email), Some("gold")),
     BadCheckoutBody("evt_1"),
     LifecycleBody("evt_1", "invoice.paid", Some(Email)),
     LifecycleBody("evt_1", "invoice.payment_failed", Some(Email)),
     LifecycleBody("evt_1", "customer.subscription.deleted", Some(Email)),
     LifecycleBody("evt_1", "customer.subscription.deleted", Some("")),
     LifecycleBody("evt_1", "customer.subscription.deleted", None),
     LifecycleBody("evt_1", "charge.refunded", None)}

\* One run of the dispatch: the event, the registry before it, the Result.
HandlerCall(seq, event, before, res) ==
    [seq |-> seq, op |-> "handle_event", event |-> event, before |-> before,
     result |-> res]

InitHandlers ==
    /\ WebhookIdle
    /\ overflow_checks = FALSE
    /\ now = StartTime
    /\ subscriptions = << >>
    /\ call = HandlerCall(0, MalformedBody, << >>, "none")

\* match event.event_type.as_str() { .. } on one event.
HandleEvent(event) ==
    /\ call.seq < MaxEvents
    /\ subscriptions' = HandlerStore(subscriptions, event, call.seq + 1, now)
    /\ call' = HandlerCall(call.seq + 1, event, subscriptions, HandlerResult(event))
    /\ UNCHANGED <<now, webhook_vars>>

NextHandlers == \E event \in HandledEvents : HandleEvent(event)

SpecHandlers == InitHandlers /\ [][NextHandlers]_vars

\* The step handles a checkout-completed event whose session parses.
HandlesCheckout ==
    /\ call'.seq = call.seq + 1
    /\ call'.event.event_type = "checkout.session.completed"
    /\ call'.event.object_is_session

\* The registry key a checkout session is filed under.
CheckoutKey(event) == IF event.customer_email.some THEN event.customer_email.v ELSE ""

\* C23: a checkout-completed event whose session parses always writes the
\* registry: it files an Active record with a new user id under the
\* session's customer_email, under the empty string when there is none,
\* with plan Pro monthly when the metadata has no plan and with the table's
\* plan (Free for an unrecognized code) when it has one.
C23_CheckoutAlwaysActivates ==
    [][HandlesCheckout
        => /\ call'.result = "Ok"
           /\ subscriptions' # subscriptions
           /\ CheckoutKey(call'.event) \in DOMAIN subscriptions'
           /\ subscriptions'[CheckoutKey(call'.event)].status = "Active"
           /\ subscriptions'[CheckoutKey(call'.event)].user_id = NewUuid(call'.seq, 0)
           /\ subscriptions'[CheckoutKey(call'.event)].plan =
                IF call'.event.plan.some
                    THEN PlanTable(call'.event.plan.v)
                    ELSE [tier |-> "Pro", monthly |-> TRUE]]_vars

\* A session without customer_email sits under the empty key, one with an
\* unknown plan code got Free, and one without plan metadata got Pro monthly.
C23_Witness ==
    /\ call.event.event_type = "checkout.session.completed"
    /\ call.event.object_is_session
    /\ ~call.event.plan.some
    /\ Email \in DOMAIN call.before
    /\ subscriptions[Email].plan = Plan("Pro", TRUE)
    /\ call.before[Email].plan = Free
    /\ "" \in DOMAIN subscriptions
    /\ subscriptions[""].plan = Plan("Enterprise", FALSE)

\* C24: every record's status is Active or Canceled in every state events
\* can reach, and a Canceled record becomes Active again only in the step
\* of a checkout-completed event filed under the same key.
C24_StatusActiveOrCanceled ==
    /\ [](\A k \in DOMAIN subscriptions : subscriptions[k].status \in {"Active", "Canceled"})
    /\ [][\A k \in DOMAIN subscriptions :
            (subscriptions[k].status = "Canceled" /\ subscriptions'[k].status # "Canceled")
            => /\ HandlesCheckout
               /\ CheckoutKey(call'.event) = k
               /\ subscriptions'[k].status = "Active"]_vars

\* A record cancelled by a subscription-deleted event survived a
\* payment-failed event as Canceled and was then activated again by a checkout.
C24_Witness ==
    /\ call.seq = MaxEvents
    /\ call.event.event_type = "checkout.session.completed"
    /\ call.event.object_is_session
    /\ Email \in DOMAIN call.before
    /\ call.before[Email].status = "Canceled"
    /\ subscriptions[Email].status = "Active"

====
